---- MODULE Spec2Model ----
(***************************************************************************)
(* A model of the RAG backend template (templates/backend-fastapi/app):    *)
(* the query pipeline of RAGService (services/rag_service.py), the         *)
(* ChunkingService (services/chunking_service.py), the QdrantService       *)
(* (services/qdrant_service.py) with the indexing and search operations    *)
(* built on it, and the endpoints of api/routes.                           *)
(*                                                                         *)
(* Python values are encoded as follows.                                   *)
(*   Optional[T]   the empty set for None, {v} for the value v             *)
(*   str           a TLA+ string; len(s) is Len(s), "a" + "b" is \o        *)
(*   list          a sequence                                              *)
(*   dict          a record; a key that may be absent holds None           *)
(* A text to be chunked is given by its structure, the sequence of the     *)
(* lengths of its header sections; a page_content cut from it is the slice *)
(* [start, len] of the text it covers.                                     *)
(***************************************************************************)
EXTENDS Integers, Sequences, FiniteSets, TLC

VARIABLES
    rag_service,   \* rag_service.py  _rag_service: None or the RAGService (its settings)
    pc,            \* position of the RAGService.query generator
    req,           \* arguments of the running query() call
    docs,          \* query(): docs, the retriever's result
    context,       \* query(): context, the assembled context block
    events,        \* the events query() has yielded so far, in order
    calls,         \* gateway calls issued so far (retriever, chat model), in order
    produced,      \* fragments the chat model has produced for this query, in order
    executor,      \* the executor thread running retriever.invoke: whether it
                   \* runs, and the gateway requests it has sent, in order
    connected,     \* whether the consumer of the query's events still consumes
    chunking_service,  \* chunking_service.py  _chunking_service: None or its settings
    splitters,     \* ChunkingService._splitters: cache_key -> splitter
    cpc,           \* "idle", or "returned" while a ChunkingService call's result is held
    op,            \* the ChunkingService call made last and its arguments
    ret,           \* what that call returned or raised
    ncalls,        \* ChunkingService calls made so far
    qdrant_service,  \* qdrant_service.py  _qdrant_service: None or its fields
    collections,   \* the vector database: collection name -> its records, in order
    next_id,       \* uuid4() values drawn so far (each draw is a new value)
    scalls,        \* calls made on vector store handles so far, in order
    sop,           \* the indexing/search operation made last and its arguments
    sret,          \* what that operation returned or raised
    endpoint,      \* the chat endpoint that runs the query, and its request
    response,      \* what the chat handler returned or raised
    threads,       \* the worker threads that run get_rag_service() for concurrent
                   \* first requests: position, instance built, instance returned
    constructed    \* RAGService instances built so far

qvars ==
    <<rag_service, pc, req, docs, context, events, calls, produced, executor, connected>>

cvars == <<chunking_service, splitters, cpc, op, ret, ncalls>>

dbvars == <<collections, next_id, scalls, sop, sret>>

svars == <<qdrant_service, dbvars>>

evars == <<endpoint, response>>

tvars == <<threads, constructed>>

xvars == <<svars, evars, tvars>>

vars == <<qvars, cvars, xvars>>

-----------------------------------------------------------------------------
(* Python helpers *)

None == {}

Some(v) == {v}

Get(o) == CHOOSE v \in o : TRUE

\* Python truthiness of an Optional[int]: None and 0 are falsy.
Truthy(o) == o # None /\ o # Some(0)

\* Python's `a or b` on an Optional[int] a and an int b.
OrElse(o, d) == IF Truthy(o) THEN Get(o) ELSE d

Max(a, b) == IF a >= b THEN a ELSE b

Min(a, b) == IF a <= b THEN a ELSE b

Last(s) == s[Len(s)]

\* "sep".join(parts)
RECURSIVE Join(_, _)
Join(parts, sep) ==
    IF Len(parts) = 0 THEN ""
    ELSE IF Len(parts) = 1 THEN parts[1]
    ELSE parts[1] \o sep \o Join(Tail(parts), sep)

\* All sequences over S of length at most n.
SeqsUpTo(S, n) == UNION {[1..m -> S] : m \in 0..n}

-----------------------------------------------------------------------------
(* Bounds of the model *)

MaxThreads == 3       \* requests that arrive before the service exists
MaxDocs == 2          \* largest k (documents returned by one retrieval)
MaxFragments == 2     \* fragments the chat model produces in one streamed answer

-----------------------------------------------------------------------------
(* The data the query pipeline works on *)

\* Documents of the vector store: page_content and metadata (source, score).
Documents ==
    { [page_content |-> "Paris is the capital.", metadata |-> [source |-> Some("a.md"), score |-> None]],
      [page_content |-> "Berlin.",               metadata |-> [source |-> None,         score |-> Some("0.9")]],
      [page_content |-> "Rome.",                 metadata |-> [source |-> Some(""),     score |-> None]] }

Questions == {"What is the capital?", "And of Italy?"}

\* chat_history values: absent or empty, one user turn, a turn of another role
\* followed by an assistant turn.
Histories ==
    { <<>>,
      << [role |-> "user", content |-> "What is the capital?"] >>,
      << [role |-> "system", content |-> "be brief"],
         [role |-> "assistant", content |-> "Paris."] >> }

\* chunk.content of a streamed chunk (may be empty), response.content of ainvoke.
Fragments == {"", "Pa", "ris"}

\* What the chat model answers when asked to reformulate a follow-up question.
Rewritten(question) == "standalone: " \o question

NoRequest ==
    [question |-> "", stream |-> TRUE, include_sources |-> TRUE,
     k |-> None, search_type |-> "similarity", chat_history |-> <<>>]

Requests ==
    [question : Questions, stream : BOOLEAN, include_sources : BOOLEAN,
     k : {None} \cup {Some(n) : n \in 0..MaxDocs}, search_type : {"similarity"},
     chat_history : Histories]

-----------------------------------------------------------------------------
(* QdrantService: its fields and the vector store handle *)

\* settings.QDRANT_COLLECTION, the configured default collection
QDRANT_COLLECTION == "documents"

\* The collections of the database: the default one and another.
CollectionNames == {QDRANT_COLLECTION, "archive"}

\* What callers pass as collection: nothing, or a collection's name.
CollectionArgs == {None} \cup {Some(c) : c \in CollectionNames}

\* QdrantService.__init__()
NewQdrantService == [_embeddings |-> None, _vectorstore |-> None]

\* set_embeddings(): stores the embeddings and drops the cached handle.
set_embeddings(service, embeddings) ==
    [service EXCEPT !._embeddings = Some(embeddings), !._vectorstore = None]

\* QdrantVectorStore(client, collection_name, embedding)
QdrantVectorStore(collection_name, embedding) ==
    [collection_name |-> collection_name, embedding |-> embedding]

\* `collection or self.settings.QDRANT_COLLECTION`
ResolvedCollection(collection) ==
    IF collection # None /\ Get(collection) # "" THEN Get(collection) ELSE QDRANT_COLLECTION

\* get_vectorstore(): whether a new handle is built.
\*   if self._vectorstore is None or embeddings is not None
NeedsNewHandle(service, collection, embeddings) ==
    service._vectorstore = None \/ embeddings # None

\* get_vectorstore(): the service after the call, and the handle returned or
\* the error raised.
get_vectorstore(service, collection, embeddings) ==
    LET emb == IF embeddings # None THEN embeddings ELSE service._embeddings
    IN  IF emb = None
        THEN [service |-> service, status |-> "ValueError", vectorstore |-> None]
        ELSE IF NeedsNewHandle(service, collection, embeddings)
        THEN LET vs == QdrantVectorStore(ResolvedCollection(collection), Get(emb))
             IN  [service |-> [service EXCEPT !._vectorstore = Some(vs)],
                  status |-> "ok", vectorstore |-> Some(vs)]
        ELSE [service |-> service, status |-> "ok", vectorstore |-> service._vectorstore]

\* get_qdrant_service(): the singleton is built on first use (a route that
\* depends on it alone may come before any RAGService exists).
get_qdrant_service ==
    /\ qdrant_service = None
    /\ qdrant_service' = Some(NewQdrantService)
    /\ UNCHANGED <<qvars, cvars, dbvars, evars, tvars>>

-----------------------------------------------------------------------------
(* RAGService *)

\* get_rag_service(): the singleton is built on first use; its settings come
\* from the configuration (RETRIEVAL_K is a positive number of documents).
\* RAGService.__init__() takes the QdrantService singleton, building it if
\* need be, and sets the embeddings in it.
NewRAGService(rk) == [RETRIEVAL_K |-> rk, instance |-> constructed + 1]

\* RAGService.__init__(): self.qdrant = get_qdrant_service(), then
\* self.qdrant.set_embeddings(self.ollama.embeddings)
InitQdrant ==
    Some(set_embeddings(IF qdrant_service = None THEN NewQdrantService
                        ELSE Get(qdrant_service),
                        "OllamaEmbeddings"))

\* get_rag_service() run from start to end by the only first caller.
get_rag_service ==
    /\ rag_service = None
    /\ \A t \in DOMAIN threads : threads[t].pc = "start"
    /\ \E rk \in 1..MaxDocs : rag_service' = Some(NewRAGService(rk))
    /\ constructed' = constructed + 1
    /\ qdrant_service' = InitQdrant
    /\ UNCHANGED <<pc, req, docs, context, events, calls, produced, executor, connected>>
    /\ UNCHANGED <<cvars, dbvars, evars, threads>>

\* The routes take the service with Depends(get_rag_service); the function is
\* a plain def, which is run in a worker thread for each request, so the first
\* requests run it in threads that interleave between any two of its steps.
\* Thread t evaluates `if _rag_service is None`.
ThreadChecks(t) ==
    /\ threads[t].pc = "start"
    /\ threads' = [threads EXCEPT ![t].pc =
                       IF rag_service = None THEN "construct" ELSE "return"]
    /\ UNCHANGED <<qvars, cvars, svars, evars, constructed>>

\* Thread t evaluates RAGService(); every instance reads the same
\* configuration.
ThreadConstructs(t) ==
    /\ threads[t].pc = "construct"
    /\ threads' = [threads EXCEPT ![t].pc = "assign",
                                  ![t].made = Some(NewRAGService(MaxDocs))]
    /\ constructed' = constructed + 1
    /\ qdrant_service' = InitQdrant
    /\ UNCHANGED <<qvars, cvars, dbvars, evars>>

\* Thread t stores the instance it built in _rag_service.
ThreadAssigns(t) ==
    /\ threads[t].pc = "assign"
    /\ rag_service' = threads[t].made
    /\ threads' = [threads EXCEPT ![t].pc = "return"]
    /\ UNCHANGED <<pc, req, docs, context, events, calls, produced, executor, connected>>
    /\ UNCHANGED <<cvars, svars, evars, constructed>>

\* Thread t evaluates `return _rag_service`: its request gets the instance
\* the global holds at that moment.
ThreadReturns(t) ==
    /\ threads[t].pc = "return"
    /\ threads' = [threads EXCEPT ![t].pc = "done", ![t].got = rag_service]
    /\ UNCHANGED <<qvars, cvars, svars, evars, constructed>>

\* get_retriever(): search_kwargs = {"k": k or self.settings.RETRIEVAL_K}
get_retriever(search_type, k) ==
    [search_type |-> search_type, k |-> OrElse(k, Get(rag_service).RETRIEVAL_K)]

RetrievalInput_Rewritten(question, chat_history) == Rewritten(question)

\* The string query() hands to retriever.invoke().
RetrievalInput(question, chat_history) == question

\* The executor thread before any query: not running, nothing sent.
ExecutorIdle == [running |-> FALSE, sent |-> <<>>]

\* No chat endpoint runs the query: query() is called by a caller of the service.
NoEndpoint == [name |-> "none", conversation_id |-> None, filters |-> None]

NoResponse ==
    [status |-> "none", response |-> "", sources |-> <<>>, conversation_id |-> None]

\* A gateway call as it is logged in calls.
RetrieverCall(input) ==
    [gateway |-> "retriever", method |-> "invoke", input |-> input,
     context |-> "", chat_history |-> <<>>]

ChatCall(method, prompt_messages) ==
    [gateway |-> "chat", method |-> method, input |-> prompt_messages.input,
     context |-> prompt_messages.context, chat_history |-> prompt_messages.chat_history]

\* query(), the sources list comprehension.
SourcesOf(ds) ==
    [i \in 1..Len(ds) |->
        [content |-> ds[i].page_content, metadata |-> ds[i].metadata,
         score |-> ds[i].metadata.score]]

\* _format_docs(): the entry of the i-th document (i counts from 1).
FormatEntry(i, doc) ==
    LET source_info ==
            IF doc.metadata.source # None /\ Get(doc.metadata.source) # ""
            THEN " (source: " \o Get(doc.metadata.source) \o ")"
            ELSE ""
    IN  "[" \o ToString(i) \o "]" \o source_info \o " " \o doc.page_content

Formatted_ZeroBased(ds) == [i \in 1..Len(ds) |-> FormatEntry(i - 1, ds[i])]

\* _format_docs(): the list `formatted`.
Formatted(ds) == [i \in 1..Len(ds) |-> FormatEntry(i, ds[i])]

format_docs_Placeholder(ds) ==
    IF ds = <<>> THEN "[1] (no document found)" ELSE Join(Formatted(ds), "\n\n")

\* _format_docs(): "\n\n".join(formatted), the empty string for no document.
format_docs(ds) == Join(Formatted(ds), "\n\n")

\* query(): chat_history turned into messages; other roles are dropped.
RECURSIVE Messages(_)
Messages(chat_history) ==
    IF Len(chat_history) = 0 THEN <<>>
    ELSE LET msg == Head(chat_history)
             rest == Messages(Tail(chat_history))
         IN  IF msg.role = "user"
             THEN <<[type |-> "human", content |-> msg.content]>> \o rest
             ELSE IF msg.role = "assistant"
             THEN <<[type |-> "ai", content |-> msg.content]>> \o rest
             ELSE rest

\* self._qa_prompt.format_messages(context=, input=, chat_history=)
PromptMessages(ctx, question, chat_history) ==
    [context |-> ctx, input |-> question, chat_history |-> Messages(chat_history)]

SourcesEvent(ds) == [type |-> "sources", data |-> SourcesOf(ds)]

TokenEvent(content) == [type |-> "token", data |-> content]

DoneEvent == [type |-> "done", data |-> None]

EmitsSources_Always(include_sources) == TRUE

\* query() emits the sources event when include_sources holds.
EmitsSources(include_sources) == include_sources

\* query(), from building the context to the call of the chat model: the
\* generator runs this without suspending and then awaits the gateway.
StartGeneration(ds) ==
    /\ context' = format_docs(ds)
    /\ calls' = Append(calls,
           ChatCall(IF req.stream THEN "astream" ELSE "ainvoke",
                    PromptMessages(format_docs(ds), req.question, req.chat_history)))
    /\ pc' = "await_generate"

\* query() is called and first resumed: it builds the retriever and awaits
\* retriever.invoke(question) in the executor. Every call of query() is a
\* generator of its own with its own locals, so one call is followed from its
\* start to its end.
\* The call builds the retriever on the handle of get_vectorstore(), and the
\* executor thread starts retriever.invoke() by sending the question to the
\* embedding gateway.
QueryStarts(r) ==
    /\ rag_service # None
    /\ pc = "idle"
    /\ req' = r
    /\ docs' = <<>>
    /\ context' = ""
    /\ events' = <<>>
    /\ produced' = <<>>
    /\ calls' = <<RetrieverCall(RetrievalInput(r.question, r.chat_history))>>
    /\ qdrant_service' = Some(get_vectorstore(Get(qdrant_service), None, None).service)
    /\ executor' = [running |-> TRUE, sent |-> <<"embed_query">>]
    /\ connected' = TRUE
    /\ pc' = "await_retrieve"
    /\ UNCHANGED rag_service
    /\ UNCHANGED <<cvars, dbvars, tvars>>

\* A caller of the service calls query() and consumes its events.
query(r) ==
    /\ QueryStarts(r)
    /\ UNCHANGED evars

\* The executor thread inside retriever.invoke(): the embedding of the question
\* has come back and the thread sends the search to the vector store. The
\* thread runs to its end whether or not the coroutine that awaits it is still
\* there: a running executor job cannot be cancelled.
ExecutorSearches ==
    /\ executor.running
    /\ executor.sent = <<"embed_query">>
    /\ executor' = [executor EXCEPT !.sent = Append(@, "vector_search")]
    /\ UNCHANGED <<rag_service, pc, req, docs, context, events, calls, produced, connected>>
    /\ UNCHANGED <<cvars, xvars>>

\* retriever.invoke() returns at most k documents; query() yields the sources
\* event if asked to, and otherwise goes on to the generation call.
RetrieveReturn(ds) ==
    /\ pc = "await_retrieve"
    /\ executor.running
    /\ Len(executor.sent) = 2
    /\ executor' = [executor EXCEPT !.running = FALSE]
    /\ Len(ds) <= get_retriever(req.search_type, req.k).k
    /\ docs' = ds
    /\ IF EmitsSources(req.include_sources)
       THEN /\ events' = Append(events, SourcesEvent(ds))
            /\ pc' = "yield_sources"
            /\ UNCHANGED <<context, calls>>
       ELSE /\ StartGeneration(ds)
            /\ UNCHANGED events
    /\ UNCHANGED <<rag_service, req, produced, connected>>
    /\ UNCHANGED <<cvars, xvars>>

\* The consumer asks for the next event after the sources event.
ResumeAfterSources ==
    /\ pc = "yield_sources"
    /\ StartGeneration(docs)
    /\ UNCHANGED <<rag_service, req, docs, events, produced, executor, connected>>
    /\ UNCHANGED <<cvars, xvars>>

StreamedToken_Reversed(evs, content) ==
    IF content # "" THEN <<TokenEvent(content)>> \o evs ELSE evs

\* query(), the body of the astream loop: the events after the chunk,
\*   if chunk.content: yield {"type": "token", "data": chunk.content}
StreamedToken(evs, content) ==
    IF content # "" THEN Append(evs, TokenEvent(content)) ELSE evs

\* astream() produces one more chunk; query() yields it when it is not empty.
AstreamChunk(content) ==
    /\ pc = "await_generate"
    /\ req.stream
    /\ Len(produced) < MaxFragments
    /\ produced' = Append(produced, content)
    /\ events' = StreamedToken(events, content)
    /\ UNCHANGED <<rag_service, pc, req, docs, context, calls, executor, connected>>
    /\ UNCHANGED <<cvars, xvars>>

EmitDone_Missing ==
    /\ events' = events
    /\ pc' = "done"

\* query(): the final yield.
EmitDone ==
    /\ events' = Append(events, DoneEvent)
    /\ pc' = "done"

\* astream() is exhausted: query() leaves the loop and yields done.
AstreamEnd ==
    /\ pc = "await_generate"
    /\ req.stream
    /\ EmitDone
    /\ UNCHANGED <<rag_service, req, docs, context, calls, produced, executor, connected>>
    /\ UNCHANGED <<cvars, xvars>>

\* ainvoke() returns the whole answer: query() yields it as one token event.
AinvokeReturn(content) ==
    /\ pc = "await_generate"
    /\ ~req.stream
    /\ produced' = <<content>>
    /\ events' = Append(events, TokenEvent(content))
    /\ pc' = "yield_token"
    /\ UNCHANGED <<rag_service, req, docs, context, calls, executor, connected>>
    /\ UNCHANGED <<cvars, xvars>>

\* The consumer asks for the next event after the batch token event.
ResumeAfterToken ==
    /\ pc = "yield_token"
    /\ EmitDone
    /\ UNCHANGED <<rag_service, req, docs, context, calls, produced, executor, connected>>
    /\ UNCHANGED <<cvars, xvars>>

\* A gateway call raises (retrieval, ainvoke, or astream at any chunk). query()
\* has no try/except and neither has its caller chat.generate(): the exception
\* leaves the generator, which yields nothing more.
GatewayFails ==
    /\ pc \in {"await_retrieve", "await_generate"}
    /\ pc' = "failed"
    /\ executor' = [executor EXCEPT !.running = FALSE]
    /\ UNCHANGED <<rag_service, req, docs, context, events, calls, produced, connected>>
    /\ UNCHANGED <<cvars, xvars>>

\* The consumer stops consuming the events of a query it called (a client
\* that goes away while the stream runs). At a yield the generator is never
\* resumed; at an await the cancellation is raised inside query(), which has
\* no handler for it: either way the generator runs no further. The /chat/sync
\* handler consumes its query to the end whatever its client does.
Disconnect ==
    /\ connected
    /\ endpoint.name # "chat_sync"
    /\ pc \in {"await_retrieve", "yield_sources", "await_generate", "yield_token"}
    /\ connected' = FALSE
    /\ pc' = "cancelled"
    /\ UNCHANGED <<rag_service, req, docs, context, events, calls, produced, executor>>
    /\ UNCHANGED <<cvars, xvars>>

\* The executor thread of a cancelled query comes to its end; nobody takes
\* its result.
ExecutorAbandoned ==
    /\ pc = "cancelled"
    /\ executor.running
    /\ Len(executor.sent) = 2
    /\ executor' = [executor EXCEPT !.running = FALSE]
    /\ UNCHANGED <<rag_service, pc, req, docs, context, events, calls, produced, connected>>
    /\ UNCHANGED <<cvars, xvars>>

-----------------------------------------------------------------------------
(* The chat endpoints, api/routes/chat.py *)

\* ChatRequest
ChatRequests ==
    [message : Questions, conversation_id : {None, Some("conv-1")},
     include_sources : BOOLEAN, filters : {None, Some([source |-> "a.md"])}]

\* POST /chat/: generate() calls rag.query(question=..., include_sources=...,
\* filters=request.filters). query() has no parameter named filters, so the
\* call raises TypeError when the response starts to iterate generate(): no
\* generator is made, no gateway is called and no event is sent.
chat(request) ==
    /\ rag_service # None
    /\ pc = "idle"
    /\ endpoint' = [name |-> "chat", conversation_id |-> request.conversation_id,
                    filters |-> request.filters]
    /\ req' = [NoRequest EXCEPT !.question = request.message,
                                !.include_sources = request.include_sources]
    /\ pc' = "failed"
    /\ response' = [NoResponse EXCEPT !.status = "TypeError"]
    /\ UNCHANGED <<rag_service, docs, context, events, calls, produced, executor, connected>>
    /\ UNCHANGED <<cvars, svars, tvars>>

\* POST /chat/sync: the handler calls rag.query(question, include_sources,
\* stream=False) and consumes its events.
chat_sync(request) ==
    /\ QueryStarts([NoRequest EXCEPT !.question = request.message,
                                     !.stream = FALSE,
                                     !.include_sources = request.include_sources])
    /\ endpoint' = [name |-> "chat_sync", conversation_id |-> request.conversation_id,
                    filters |-> request.filters]
    /\ UNCHANGED response

\* chat_sync(): sources = chunk["data"] of the sources event (the last one).
RECURSIVE SourcesSeen(_)
SourcesSeen(evs) ==
    IF evs = <<>> THEN <<>>
    ELSE IF Last(evs).type = "sources" THEN Last(evs).data
    ELSE SourcesSeen(SubSeq(evs, 1, Len(evs) - 1))

\* chat_sync(): response_text += chunk["data"] for each token event, in order.
RECURSIVE ResponseText(_)
ResponseText(evs) ==
    IF evs = <<>> THEN ""
    ELSE IF Head(evs).type = "token" THEN Head(evs).data \o ResponseText(Tail(evs))
    ELSE ResponseText(Tail(evs))

\* Source(**entry): id: str and score: float are required fields.
ValidSource(entry) == "id" \in DOMAIN entry /\ entry.score # None

\* ChatResponse(response=, sources=, conversation_id=): pydantic builds a
\* Source from every entry of sources and raises ValidationError if one fails.
ChatResponse(response_text, sources, conversation_id) ==
    IF \A i \in 1..Len(sources) : ValidSource(sources[i])
    THEN [status |-> "ok", response |-> response_text, sources |-> sources,
          conversation_id |-> conversation_id]
    ELSE [NoResponse EXCEPT !.status = "ValidationError"]

\* chat_sync(): the loop over query() has ended and the handler returns.
ChatSyncReturn ==
    /\ endpoint.name = "chat_sync"
    /\ pc = "done"
    /\ response = NoResponse
    /\ response' = ChatResponse(ResponseText(events), SourcesSeen(events),
                                endpoint.conversation_id)
    /\ UNCHANGED <<qvars, cvars, svars, endpoint, tvars>>

-----------------------------------------------------------------------------
(* The data the ChunkingService works on *)

MaxChunkSize == 3     \* the configured CHUNK_SIZE; callers pass smaller sizes
MaxOverlap == 1       \* the configured CHUNK_OVERLAP; callers pass it or none
MaxCalls == 2         \* ChunkingService calls followed in one behaviour

SemanticOverlapCap == 50

DefaultTokensPerChunk == 256

\* ChunkingStrategy
ValidStrategies == {"recursive", "character", "token", "markdown", "html", "semantic"}

\* Strategy strings outside the Literal; the second one looks like a cache key.
UnknownStrategies == {"sentence", "recursive_2"}

Strategies == ValidStrategies \cup UnknownStrategies

StructuralStrategies == {"markdown", "html"}

\* A short section and one longer than every chunk size in use.
ShortSection == 1

LongSection == MaxChunkSize + 2

RECURSIVE TextLen(_)
TextLen(text) == IF Len(text) = 0 THEN 0 ELSE Head(text) + TextLen(Tail(text))

\* The whole text as one page_content.
Whole(text) == [start |-> 0, len |-> TextLen(text)]

EmptyMeta == [source |-> None, header |-> None, chunk_index |-> None, total_chunks |-> None]

SourceMeta == [EmptyMeta EXCEPT !.source = Some("a.md")]

\* `metadata or {}`
MetaOf(metadata) == IF metadata = None THEN EmptyMeta ELSE Get(metadata)

\* **kwargs of get_splitter / split_text / split_documents
NoKwargs ==
    [separators |-> None, separator |-> None, encoding_name |-> None,
     headers_to_split_on |-> None, tokens_per_chunk |-> None]

CustomKwargs ==
    [separators |-> Some("\\n\\n, "), separator |-> Some("\\n"), encoding_name |-> Some("gpt2"),
     headers_to_split_on |-> Some("#"), tokens_per_chunk |-> Some(128)]

\* kwargs.get(key, default)
KwGet(o, default) == IF o = None THEN default ELSE Get(o)

ChunkSizes == {None, Some(MaxChunkSize - 1)}

ChunkOverlaps == {None, Some(MaxOverlap)}

\* (text, metadata) arguments of split_text.
TextInputs ==
    { [text |-> <<>>, metadata |-> None],
      [text |-> <<LongSection>>, metadata |-> Some(SourceMeta)],
      [text |-> <<ShortSection, LongSection>>, metadata |-> None] }

\* Documents handed to split_documents.
InputDocuments ==
    { <<>>,
      << [page_content |-> <<LongSection>>, metadata |-> SourceMeta] >>,
      << [page_content |-> <<ShortSection, LongSection>>, metadata |-> EmptyMeta],
         [page_content |-> <<LongSection>>, metadata |-> SourceMeta] >> }

NoOp ==
    [name |-> "none", text |-> <<>>, documents |-> <<>>, strategy |-> "recursive",
     chunk_size |-> None, chunk_overlap |-> None, metadata |-> None, kwargs |-> NoKwargs,
     content_type |-> "general", avg_doc_length |-> 0]

NoRet ==
    [status |-> "none", splitter |-> None, chunks |-> <<>>, estimate |-> None,
     recommendation |-> None]

-----------------------------------------------------------------------------
(* The LangChain text splitters, as far as the service relies on them *)

\* Windows of at most `size` characters, each starting `size - overlap` after
\* the one before, until the text is covered; nothing for an empty text.
RECURSIVE Windows(_, _, _, _)
Windows(start, len, size, overlap) ==
    IF len = 0 THEN <<>>
    ELSE IF len <= size THEN <<[start |-> start, len |-> len]>>
    ELSE LET step == Max(1, size - overlap)
         IN  <<[start |-> start, len |-> size]>>
             \o Windows(start + step, len - step, size, overlap)

\* TextSplitter.split_text of the size-bound splitters on one page_content.
SplitContent(splitter, content) ==
    IF splitter.cls = "SentenceTransformersTokenTextSplitter"
    THEN Windows(content.start, content.len,
                 Get(splitter.tokens_per_chunk), Get(splitter.chunk_overlap))
    ELSE Windows(content.start, content.len,
                 Get(splitter.chunk_size), Get(splitter.chunk_overlap))

\* TextSplitter.split_documents: every chunk of every document, in order, each
\* with a copy of its document's metadata.
RECURSIVE SplitDocuments(_, _)
SplitDocuments(splitter, documents) ==
    IF Len(documents) = 0 THEN <<>>
    ELSE LET d == Head(documents)
             pieces == SplitContent(splitter, d.page_content)
         IN  [i \in 1..Len(pieces) |-> [page_content |-> pieces[i], metadata |-> d.metadata]]
             \o SplitDocuments(splitter, Tail(documents))

\* MarkdownHeaderTextSplitter / HTMLHeaderTextSplitter.split_text: one Document
\* per header section, its metadata the header it stands under.
RECURSIVE HeaderSplit(_, _, _)
HeaderSplit(text, start, n) ==
    IF Len(text) = 0 THEN <<>>
    ELSE << [page_content |-> [start |-> start, len |-> Head(text)],
             metadata |-> [EmptyMeta EXCEPT !.header = Some(n)]] >>
         \o HeaderSplit(Tail(text), start + Head(text), n + 1)

-----------------------------------------------------------------------------
(* ChunkingService *)

\* get_chunking_service(): the singleton is built on first use, with the
\* configured CHUNK_SIZE and CHUNK_OVERLAP (overlap below size).
get_chunking_service ==
    /\ chunking_service = None
    /\ chunking_service' = Some([CHUNK_SIZE |-> MaxChunkSize, CHUNK_OVERLAP |-> MaxOverlap])
    /\ UNCHANGED <<splitters, cpc, op, ret, ncalls>>
    /\ UNCHANGED <<qvars, xvars>>

settings == Get(chunking_service)

\* cache_key = f"{strategy}_{chunk_size}_{chunk_overlap}"
CacheKey(strategy, chunk_size, chunk_overlap) ==
    strategy \o "_" \o ToString(chunk_size) \o "_" \o ToString(chunk_overlap)

Splitter(cls, chunk_size, chunk_overlap, option, tokens_per_chunk) ==
    [cls |-> cls, chunk_size |-> chunk_size, chunk_overlap |-> chunk_overlap,
     option |-> option, tokens_per_chunk |-> tokens_per_chunk]

Raised(error) == [status |-> error, splitter |-> None]

Returned(splitter) == [status |-> "ok", splitter |-> Some(splitter)]

UnknownStrategy_Fallback(strategy, chunk_size, chunk_overlap) ==
    Returned(Splitter("RecursiveCharacterTextSplitter", Some(chunk_size),
                      Some(chunk_overlap), "\\n\\n,\\n,. ,, , ,", None))

\* _create_splitter(), the final else: raise ValueError.
UnknownStrategy(strategy, chunk_size, chunk_overlap) == Raised("ValueError")

\* _create_splitter()
create_splitter(strategy, chunk_size, chunk_overlap, kwargs) ==
    IF strategy = "recursive" THEN
        Returned(Splitter("RecursiveCharacterTextSplitter", Some(chunk_size), Some(chunk_overlap),
                          KwGet(kwargs.separators, "\\n\\n,\\n,. ,, , ,"), None))
    ELSE IF strategy = "character" THEN
        Returned(Splitter("CharacterTextSplitter", Some(chunk_size), Some(chunk_overlap),
                          KwGet(kwargs.separator, "\\n\\n"), None))
    ELSE IF strategy = "token" THEN
        Returned(Splitter("TokenTextSplitter", Some(chunk_size), Some(chunk_overlap),
                          KwGet(kwargs.encoding_name, "cl100k_base"), None))
    ELSE IF strategy = "markdown" THEN
        Returned(Splitter("MarkdownHeaderTextSplitter", None, None,
                          KwGet(kwargs.headers_to_split_on, "#,##,###"), None))
    ELSE IF strategy = "html" THEN
        Returned(Splitter("HTMLHeaderTextSplitter", None, None,
                          KwGet(kwargs.headers_to_split_on, "h1,h2,h3"), None))
    ELSE IF strategy = "semantic" THEN
        Returned(Splitter("SentenceTransformersTokenTextSplitter", None,
                          Some(Min(chunk_overlap, SemanticOverlapCap)), "",
                          Some(KwGet(kwargs.tokens_per_chunk, DefaultTokensPerChunk))))
    ELSE UnknownStrategy(strategy, chunk_size, chunk_overlap)

\* get_splitter() on the cache `cache`: the cache afterwards and the outcome.
get_splitter(cache, strategy, chunk_size, chunk_overlap, kwargs) ==
    LET size == OrElse(chunk_size, settings.CHUNK_SIZE)
        overlap == OrElse(chunk_overlap, settings.CHUNK_OVERLAP)
        cache_key == CacheKey(strategy, size, overlap)
    IN  IF cache_key \in DOMAIN cache
        THEN [cache |-> cache] @@ Returned(cache[cache_key])
        ELSE LET made == create_splitter(strategy, size, overlap, kwargs)
             IN  IF made.status = "ok"
                 THEN [cache |-> cache @@ (cache_key :> Get(made.splitter))] @@ made
                 ELSE [cache |-> cache] @@ made

\* split_text(): chunk_index / total_chunks stamped on the final list.
Stamp(chunks) ==
    [i \in 1..Len(chunks) |->
        [chunks[i] EXCEPT !.metadata.chunk_index = Some(i - 1),
                          !.metadata.total_chunks = Some(Len(chunks))]]

\* split_text(): the secondary pass over the structural chunks.
RECURSIVE SecondPass(_, _, _)
SecondPass(recursive_splitter, structural, chunk_size) ==
    IF Len(structural) = 0 THEN <<>>
    ELSE LET d == Head(structural)
         IN  (IF d.page_content.len > chunk_size
              THEN SplitDocuments(recursive_splitter, <<d>>)
              ELSE <<d>>)
             \o SecondPass(recursive_splitter, Tail(structural), chunk_size)

\* The secondary pass runs under `if chunk_size:`, the caller's argument.
SecondPassApplies(chunk_size) == Truthy(chunk_size)

Failed(cache, error) == [cache |-> cache, status |-> error, chunks |-> <<>>]

Chunked(cache, chunks) == [cache |-> cache, status |-> "ok", chunks |-> chunks]

\* split_text() on the cache `cache`: the cache afterwards and the outcome.
\* Both header splitters return Documents, so `docs = chunks` is the branch
\* taken, and the metadata argument is not used for these strategies.
split_text(cache, text, strategy, chunk_size, chunk_overlap, metadata, kwargs) ==
    LET got == get_splitter(cache, strategy, chunk_size, chunk_overlap, kwargs)
    IN  IF got.status # "ok" THEN Failed(got.cache, got.status)
        ELSE IF strategy \in StructuralStrategies THEN
            LET structural == HeaderSplit(text, 0, 1)
            IN  IF Len(structural) = 0 THEN Failed(got.cache, "IndexError")  \* chunks[0]
                ELSE IF SecondPassApplies(chunk_size) THEN
                    LET rec == get_splitter(got.cache, "recursive", chunk_size,
                                            chunk_overlap, NoKwargs)
                    IN  Chunked(rec.cache,
                                Stamp(SecondPass(Get(rec.splitter), structural,
                                                 Get(chunk_size))))
                ELSE Chunked(got.cache, Stamp(structural))
        ELSE Chunked(got.cache,
                     Stamp(SplitDocuments(Get(got.splitter),
                               <<[page_content |-> Whole(text),
                                  metadata |-> MetaOf(metadata)]>>)))

\* split_documents(), structural strategies: split_text() document by document.
RECURSIVE SplitEach(_, _, _, _, _, _)
SplitEach(cache, documents, strategy, chunk_size, chunk_overlap, kwargs) ==
    IF Len(documents) = 0 THEN Chunked(cache, <<>>)
    ELSE LET doc == Head(documents)
             first == split_text(cache, doc.page_content, strategy, chunk_size,
                                 chunk_overlap, Some(doc.metadata), kwargs)
         IN  IF first.status # "ok" THEN first
             ELSE LET rest == SplitEach(first.cache, Tail(documents), strategy,
                                        chunk_size, chunk_overlap, kwargs)
                  IN  IF rest.status # "ok" THEN rest
                      ELSE Chunked(rest.cache, first.chunks \o rest.chunks)

\* split_documents() on the cache `cache`: the cache afterwards and the outcome.
split_documents(cache, documents, strategy, chunk_size, chunk_overlap, kwargs) ==
    LET got == get_splitter(cache, strategy, chunk_size, chunk_overlap, kwargs)
    IN  IF got.status # "ok" THEN Failed(got.cache, got.status)
        ELSE IF strategy \in StructuralStrategies
        THEN SplitEach(got.cache, documents, strategy, chunk_size, chunk_overlap, kwargs)
        ELSE Chunked(got.cache,
                     SplitDocuments(Get(got.splitter),
                         [i \in 1..Len(documents) |->
                             [page_content |-> Whole(documents[i].page_content),
                              metadata |-> documents[i].metadata]]))

EstimatedChunks_Unguarded(text_length, chunk_overlap, effective_chunk) ==
    Max(1, (text_length - chunk_overlap) \div Max(1, effective_chunk))

\* estimate_chunks(): the count, 1 when the window does not advance.
EstimatedChunks(text_length, chunk_overlap, effective_chunk) ==
    IF effective_chunk <= 0 THEN 1
    ELSE Max(1, (text_length - chunk_overlap) \div effective_chunk)

\* estimate_chunks()
estimate_chunks(text, strategy, chunk_size, chunk_overlap) ==
    LET size == OrElse(chunk_size, settings.CHUNK_SIZE)
        overlap == OrElse(chunk_overlap, settings.CHUNK_OVERLAP)
        text_length == TextLen(text)
        effective_chunk == size - overlap
    IN  [text_length |-> text_length,
         chunk_size |-> size,
         chunk_overlap |-> overlap,
         estimated_chunks |-> EstimatedChunks(text_length, overlap, effective_chunk),
         strategy |-> strategy]

\* get_optimal_strategy(): the table of recommendations (strategy, chunk_size
\* and chunk_overlap of each entry; the reason and separator entries are
\* returned as they stand in the table).
recommendations ==
    [markdown |-> [strategy |-> "markdown", chunk_size |-> 1000, chunk_overlap |-> 200],
     html |-> [strategy |-> "html", chunk_size |-> 1000, chunk_overlap |-> 200],
     code |-> [strategy |-> "recursive", chunk_size |-> 1500, chunk_overlap |-> 200],
     conversation |-> [strategy |-> "character", chunk_size |-> 500, chunk_overlap |-> 50],
     structured |-> [strategy |-> "semantic", chunk_size |-> 512, chunk_overlap |-> 50],
     general |-> [strategy |-> "recursive", chunk_size |-> 1000, chunk_overlap |-> 200]]

\* The content-type tags callers pass: the known ones and one unknown.
ContentTypes == DOMAIN recommendations \cup {"pdf"}

\* get_optimal_strategy(): recommendations.get(content_type, general), then
\* the adjustment for short documents, each value capped with min().
get_optimal_strategy(content_type, avg_doc_length) ==
    LET rec == IF content_type \in DOMAIN recommendations
               THEN recommendations[content_type]
               ELSE recommendations["general"]
        size == IF avg_doc_length < 500
                THEN Min(rec.chunk_size, avg_doc_length)
                ELSE rec.chunk_size
        overlap == IF avg_doc_length < 500
                   THEN Min(rec.chunk_overlap, size \div 5)
                   ELSE rec.chunk_overlap
    IN  [rec EXCEPT !.chunk_size = size, !.chunk_overlap = overlap]

\* The service exists and no call is in progress: calls do not interleave.
Ready == chunking_service # None /\ cpc = "idle"

\* A caller calls get_splitter().
GetSplitterCall(strategy, chunk_size, chunk_overlap, kwargs) ==
    /\ Ready
    /\ ncalls < MaxCalls
    /\ LET got == get_splitter(splitters, strategy, chunk_size, chunk_overlap, kwargs)
       IN  /\ splitters' = got.cache
           /\ ret' = [NoRet EXCEPT !.status = got.status, !.splitter = got.splitter]
    /\ op' = [NoOp EXCEPT !.name = "get_splitter", !.strategy = strategy,
                          !.chunk_size = chunk_size, !.chunk_overlap = chunk_overlap,
                          !.kwargs = kwargs]
    /\ cpc' = "returned"
    /\ ncalls' = ncalls + 1
    /\ UNCHANGED chunking_service
    /\ UNCHANGED <<qvars, xvars>>

\* A caller calls split_text().
SplitTextCall(text, strategy, chunk_size, chunk_overlap, metadata, kwargs) ==
    /\ Ready
    /\ ncalls < MaxCalls
    /\ LET got == split_text(splitters, text, strategy, chunk_size, chunk_overlap,
                             metadata, kwargs)
       IN  /\ splitters' = got.cache
           /\ ret' = [NoRet EXCEPT !.status = got.status, !.chunks = got.chunks]
    /\ op' = [NoOp EXCEPT !.name = "split_text", !.text = text, !.strategy = strategy,
                          !.chunk_size = chunk_size, !.chunk_overlap = chunk_overlap,
                          !.metadata = metadata, !.kwargs = kwargs]
    /\ cpc' = "returned"
    /\ ncalls' = ncalls + 1
    /\ UNCHANGED chunking_service
    /\ UNCHANGED <<qvars, xvars>>

\* A caller calls split_documents().
SplitDocumentsCall(documents, strategy, chunk_size, chunk_overlap, kwargs) ==
    /\ Ready
    /\ ncalls < MaxCalls
    /\ LET got == split_documents(splitters, documents, strategy, chunk_size,
                                  chunk_overlap, kwargs)
       IN  /\ splitters' = got.cache
           /\ ret' = [NoRet EXCEPT !.status = got.status, !.chunks = got.chunks]
    /\ op' = [NoOp EXCEPT !.name = "split_documents", !.documents = documents,
                          !.strategy = strategy, !.chunk_size = chunk_size,
                          !.chunk_overlap = chunk_overlap, !.kwargs = kwargs]
    /\ cpc' = "returned"
    /\ ncalls' = ncalls + 1
    /\ UNCHANGED chunking_service
    /\ UNCHANGED <<qvars, xvars>>

\* A caller calls estimate_chunks(); the cache is not touched.
EstimateChunksCall(text, strategy, chunk_size, chunk_overlap) ==
    /\ Ready
    /\ ret' = [NoRet EXCEPT !.status = "ok",
                  !.estimate = Some(estimate_chunks(text, strategy, chunk_size, chunk_overlap))]
    /\ op' = [NoOp EXCEPT !.name = "estimate_chunks", !.text = text, !.strategy = strategy,
                          !.chunk_size = chunk_size, !.chunk_overlap = chunk_overlap]
    /\ cpc' = "returned"
    /\ UNCHANGED <<chunking_service, splitters, ncalls>>
    /\ UNCHANGED <<qvars, xvars>>

\* A caller calls get_optimal_strategy(); the table is built anew in each call
\* and the service's state is not touched.
GetOptimalStrategyCall(content_type, avg_doc_length) ==
    /\ Ready
    /\ ret' = [NoRet EXCEPT !.status = "ok",
                  !.recommendation = Some(get_optimal_strategy(content_type, avg_doc_length))]
    /\ op' = [NoOp EXCEPT !.name = "get_optimal_strategy", !.content_type = content_type,
                          !.avg_doc_length = avg_doc_length]
    /\ cpc' = "returned"
    /\ UNCHANGED <<chunking_service, splitters, ncalls>>
    /\ UNCHANGED <<qvars, xvars>>

\* The caller has taken the result; the service waits for its next call.
CallerContinues ==
    /\ cpc = "returned"
    /\ cpc' = "idle"
    /\ op' = NoOp
    /\ ret' = NoRet
    /\ UNCHANGED <<chunking_service, splitters, ncalls>>
    /\ UNCHANGED <<qvars, xvars>>

-----------------------------------------------------------------------------
(* Indexing and search: RAGService and QdrantService over the database *)

MaxTexts == 2        \* texts in one indexing request
MaxStoreCalls == 2   \* calls reaching the vector store followed in one behaviour
MaxMmrK == 22        \* largest k asked of an MMR search

\* metadata={} of a Document built without metadata
EmptyMetadata == [source |-> None, score |-> None]

\* The texts of an indexing request: n distinct texts.
IndexTexts == {[i \in 1..n |-> "text" \o ToString(i)] : n \in 0..MaxTexts}

\* The metadatas of an indexing request: none, or a list of m dicts, which
\* may be shorter or longer than the texts.
IndexMetadatas ==
    {None} \cup
    {Some([i \in 1..m |-> [source |-> Some("src" \o ToString(i)), score |-> None]]) :
        m \in 0..MaxTexts}

\* The k asked of an MMR search: one result, the default of the signature,
\* and more than the default pool.
MmrKs == {1, 5, MaxMmrK}

\* Metadata filters of a search: none, or one key with the value to match.
SearchFilters == {None, Some([source |-> "src1"])}

NoSop ==
    [name |-> "none", texts |-> <<>>, metadatas |-> None, collection |-> None,
     k |-> 0, fetch_k |-> None, filters |-> None]

NoSret == [status |-> "none", count |-> 0, ids |-> <<>>, docs |-> <<>>]

\* index_texts(): one Document per text,
\*   metadata=metadatas[i] if metadatas and i < len(metadatas) else {}
DocumentsOfTexts(texts, metadatas) ==
    [i \in 1..Len(texts) |->
        [page_content |-> texts[i],
         metadata |-> IF metadatas # None /\ Get(metadatas) # <<>> /\ i <= Len(Get(metadatas))
                      THEN Get(metadatas)[i]
                      ELSE EmptyMetadata]]

\* add_documents(): ids = [str(uuid.uuid4()) for _ in documents]
FreshIds(n) == [i \in 1..n |-> next_id + i]

\* vectorstore.add_documents(documents, ids=ids): one record per document.
Records(documents, ids) ==
    [i \in 1..Len(documents) |->
        [id |-> ids[i], page_content |-> documents[i].page_content,
         metadata |-> documents[i].metadata]]

\* A call made on a vector store handle.
StoreCall(vectorstore, method, k, fetch_k) ==
    [collection_name |-> vectorstore.collection_name, method |-> method,
     k |-> k, fetch_k |-> fetch_k]

\* No indexing or search operation is in progress: operations are followed
\* one after the other.
StoreReady == rag_service # None /\ sop = NoSop

\* RAGService.index_texts() -> index_documents() -> QdrantService
\* .add_documents(): the handle comes from get_vectorstore(collection, None);
\* the write runs in the executor and succeeds (ok) or raises.
IndexTextsCall(texts, metadatas, collection, ok) ==
    /\ StoreReady
    /\ Len(scalls) < MaxStoreCalls
    /\ LET documents == DocumentsOfTexts(texts, metadatas)
           got == get_vectorstore(Get(qdrant_service), collection, None)
           vs == Get(got.vectorstore)
           ids == FreshIds(Len(documents))
       IN  /\ qdrant_service' = Some(got.service)
           /\ next_id' = next_id + Len(documents)
           /\ scalls' = Append(scalls, StoreCall(vs, "add_documents", Len(documents), None))
           /\ IF ok
              THEN /\ collections' =
                         [collections EXCEPT ![vs.collection_name] =
                             @ \o Records(documents, ids)]
                   /\ sret' = [NoSret EXCEPT !.status = "ok", !.count = Len(ids),
                                              !.ids = ids]
              ELSE /\ collections' = collections
                   /\ sret' = [NoSret EXCEPT !.status = "GatewayError"]
    /\ sop' = [NoSop EXCEPT !.name = "index_texts", !.texts = texts,
                            !.metadatas = metadatas, !.collection = collection]
    /\ UNCHANGED <<qvars, cvars, evars, tvars>>

\* POST /rag/index: the route calls rag.index_documents(texts=..., metadatas=...,
\* collection=...); index_documents() takes (documents, collection), so the
\* call raises TypeError before anything is done.
IndexEndpoint(texts, metadatas, collection) ==
    /\ StoreReady
    /\ sop' = [NoSop EXCEPT !.name = "POST /rag/index", !.texts = texts,
                            !.metadatas = metadatas, !.collection = collection]
    /\ sret' = [NoSret EXCEPT !.status = "TypeError"]
    /\ UNCHANGED <<qdrant_service, collections, next_id, scalls>>
    /\ UNCHANGED <<qvars, cvars, evars, tvars>>

\* models.Filter(must=[FieldCondition("metadata.<key>", MatchValue(value))])
Matches(record, filter) ==
    filter = None \/ record.metadata.source = Some(Get(filter).source)

\* The first k records of a sequence that match the filter.
RECURSIVE TopK(_, _, _)
TopK(records, k, filter) ==
    IF records = <<>> \/ k <= 0 THEN <<>>
    ELSE IF Matches(Head(records), filter)
         THEN <<Head(records)>> \o TopK(Tail(records), k - 1, filter)
         ELSE TopK(Tail(records), k, filter)

\* The {"content", "metadata"} dicts search() and mmr_search() return.
ResultsOf(records) ==
    [i \in 1..Len(records) |->
        [content |-> records[i].page_content, metadata |-> records[i].metadata]]

\* QdrantService.similarity_search(): the handle comes from
\* get_vectorstore(collection, None); the search runs on the handle.
SimilaritySearch(collection, k, filter, name) ==
    /\ Len(scalls) < MaxStoreCalls
    /\ LET got == get_vectorstore(Get(qdrant_service), collection, None)
           vs == Get(got.vectorstore)
       IN  /\ qdrant_service' = Some(got.service)
           /\ scalls' = Append(scalls, StoreCall(vs, "similarity_search", k, None))
           /\ sret' = [NoSret EXCEPT !.status = "ok",
                  !.docs = ResultsOf(TopK(collections[vs.collection_name], k, filter))]
    /\ sop' = [NoSop EXCEPT !.name = name, !.collection = collection, !.k = k,
                            !.filters = filter]
    /\ UNCHANGED <<collections, next_id>>
    /\ UNCHANGED <<qvars, cvars, evars, tvars>>

\* RAGService.search(query, k, filters): similarity_search() without a
\* collection.
SearchCall(k, filters) ==
    /\ StoreReady
    /\ SimilaritySearch(None, k, filters, "search")

\* QdrantService.similarity_search() called with a collection.
SimilaritySearchCall(collection, k, filter) ==
    /\ StoreReady
    /\ SimilaritySearch(collection, k, filter, "similarity_search")

\* mmr_search(..., k: int = 5, fetch_k: int = 20, ...): the fetch_k in force
\* when the caller passes none is the default of the signature.
MmrFetchK(k, fetch_k) == IF fetch_k = None THEN 20 ELSE Get(fetch_k)

\* RAGService.mmr_search() -> QdrantService.mmr_search() ->
\* vectorstore.max_marginal_relevance_search(query, k, fetch_k, lambda_mult):
\* k results picked from a pool of fetch_k candidates.
MmrSearchCall(k, fetch_k) ==
    /\ StoreReady
    /\ Len(scalls) < MaxStoreCalls
    /\ LET got == get_vectorstore(Get(qdrant_service), None, None)
           vs == Get(got.vectorstore)
           pool == MmrFetchK(k, fetch_k)
       IN  /\ qdrant_service' = Some(got.service)
           /\ scalls' = Append(scalls,
                  StoreCall(vs, "max_marginal_relevance_search", k, Some(pool)))
           /\ sret' = [NoSret EXCEPT !.status = "ok",
                  !.docs = ResultsOf(TopK(collections[vs.collection_name],
                                          Min(k, pool), None))]
    /\ sop' = [NoSop EXCEPT !.name = "mmr_search", !.k = k, !.fetch_k = fetch_k]
    /\ UNCHANGED <<collections, next_id>>
    /\ UNCHANGED <<qvars, cvars, evars, tvars>>

\* QdrantService.delete_collection(): the collection is dropped, and the
\* cached handle is reset when the name is the configured default.
DeleteCollectionCall(collection_name) ==
    /\ qdrant_service # None
    /\ sop = NoSop
    /\ collections' = [collections EXCEPT ![collection_name] = <<>>]
    /\ qdrant_service' =
           IF Get(qdrant_service)._vectorstore # None
                  /\ collection_name = QDRANT_COLLECTION
           THEN Some([Get(qdrant_service) EXCEPT !._vectorstore = None])
           ELSE qdrant_service
    /\ sop' = [NoSop EXCEPT !.name = "delete_collection",
                            !.collection = Some(collection_name)]
    /\ sret' = [NoSret EXCEPT !.status = "ok"]
    /\ UNCHANGED <<next_id, scalls>>
    /\ UNCHANGED <<qvars, cvars, evars, tvars>>

\* The caller has taken the result of the operation.
StoreCallerContinues ==
    /\ sop # NoSop
    /\ sop' = NoSop
    /\ sret' = NoSret
    /\ UNCHANGED <<qdrant_service, collections, next_id, scalls>>
    /\ UNCHANGED <<qvars, cvars, evars, tvars>>

-----------------------------------------------------------------------------

Init ==
    /\ threads = [t \in 1..MaxThreads |-> [pc |-> "start", made |-> None, got |-> None]]
    /\ constructed = 0
    /\ executor = ExecutorIdle
    /\ connected = TRUE
    /\ endpoint = NoEndpoint
    /\ response = NoResponse
    /\ qdrant_service = None
    /\ collections = [c \in CollectionNames |-> <<>>]
    /\ next_id = 0
    /\ scalls = <<>>
    /\ sop = NoSop
    /\ sret = NoSret

    /\ rag_service = None
    /\ pc = "idle"
    /\ req = NoRequest
    /\ docs = <<>>
    /\ context = ""
    /\ events = <<>>
    /\ calls = <<>>
    /\ produced = <<>>
    /\ chunking_service = None
    /\ splitters = <<>>
    /\ cpc = "idle"
    /\ op = NoOp
    /\ ret = NoRet
    /\ ncalls = 0

Next ==
    \/ get_rag_service
    \/ \E r \in Requests : query(r)
    \/ ExecutorSearches
    \/ \E ds \in SeqsUpTo(Documents, MaxDocs) : RetrieveReturn(ds)
    \/ ResumeAfterSources
    \/ \E content \in Fragments : AstreamChunk(content)
    \/ AstreamEnd
    \/ \E content \in Fragments : AinvokeReturn(content)
    \/ ResumeAfterToken
    \/ GatewayFails

Spec == Init /\ [][Next]_vars

\* The query pipeline with its consumers: the chat endpoints, and consumers
\* that go away.
NextChat ==
    \/ Next
    \/ \E request \in ChatRequests : chat(request)
    \/ \E request \in ChatRequests : chat_sync(request)
    \/ ChatSyncReturn
    \/ Disconnect
    \/ ExecutorAbandoned

SpecChat == Init /\ [][NextChat]_vars

\* Texts whose length is all estimate_chunks() looks at, and the sizes and
\* overlaps passed to it (None, 0 and positive values).
MaxEstimateLen == 8

EstimateTexts == {<<n>> : n \in 0..MaxEstimateLen}

EstimateSizes == {None} \cup {Some(n) : n \in 0..MaxChunkSize}

EstimateOverlaps == {None} \cup {Some(n) : n \in 0..(MaxOverlap + 1)}

NextChunk ==
    \/ get_chunking_service
    \/ Ready /\ \E strategy \in Strategies, chunk_size \in ChunkSizes, chunk_overlap \in ChunkOverlaps,
          kwargs \in {NoKwargs, CustomKwargs} :
          GetSplitterCall(strategy, chunk_size, chunk_overlap, kwargs)
    \/ Ready /\ \E input \in TextInputs, strategy \in Strategies, chunk_size \in ChunkSizes,
          chunk_overlap \in ChunkOverlaps, kwargs \in {NoKwargs, CustomKwargs} :
          SplitTextCall(input.text, strategy, chunk_size, chunk_overlap, input.metadata, kwargs)
    \/ Ready /\ \E documents \in InputDocuments, strategy \in Strategies, chunk_size \in ChunkSizes,
          chunk_overlap \in ChunkOverlaps, kwargs \in {NoKwargs, CustomKwargs} :
          SplitDocumentsCall(documents, strategy, chunk_size, chunk_overlap, kwargs)
    \/ CallerContinues

SpecChunk == Init /\ [][NextChunk]_vars

NextEstimate ==
    \/ get_chunking_service
    \/ Ready /\ \E text \in EstimateTexts, strategy \in {"recursive", "markdown"},
          chunk_size \in EstimateSizes, chunk_overlap \in EstimateOverlaps :
          EstimateChunksCall(text, strategy, chunk_size, chunk_overlap)
    \/ CallerContinues

SpecEstimate == Init /\ [][NextEstimate]_vars

\* Average document lengths passed to get_optimal_strategy(): every length up
\* to a little over the threshold of the adjustment.
MaxAvgDocLength == 520

NextAdvice ==
    \/ get_chunking_service
    \/ Ready /\ \E content_type \in ContentTypes, avg_doc_length \in 0..MaxAvgDocLength :
          GetOptimalStrategyCall(content_type, avg_doc_length)
    \/ CallerContinues

SpecAdvice == Init /\ [][NextAdvice]_vars

NextStore ==
    \/ get_rag_service
    \/ get_qdrant_service
    \/ StoreReady /\ \E texts \in IndexTexts, metadatas \in IndexMetadatas,
          collection \in CollectionArgs, ok \in BOOLEAN :
          IndexTextsCall(texts, metadatas, collection, ok)
    \/ StoreReady /\ \E texts \in IndexTexts, metadatas \in IndexMetadatas,
          collection \in CollectionArgs :
          IndexEndpoint(texts, metadatas, collection)
    \/ StoreReady /\ \E k \in 1..MaxTexts, filters \in SearchFilters : SearchCall(k, filters)
    \/ StoreReady /\ \E collection \in CollectionArgs, k \in 1..MaxTexts,
          filter \in SearchFilters : SimilaritySearchCall(collection, k, filter)
    \/ StoreReady /\ \E k \in MmrKs, fetch_k \in {None, Some(MaxMmrK)} :
          MmrSearchCall(k, fetch_k)
    \/ \E collection_name \in CollectionNames : DeleteCollectionCall(collection_name)
    \/ StoreCallerContinues

SpecStore == Init /\ [][NextStore]_vars

\* The first requests of the process, each taking the service in its thread.
NextThreads ==
    \/ \E t \in 1..MaxThreads : ThreadChecks(t)
    \/ \E t \in 1..MaxThreads : ThreadConstructs(t)
    \/ \E t \in 1..MaxThreads : ThreadAssigns(t)
    \/ \E t \in 1..MaxThreads : ThreadReturns(t)

SpecThreads == Init /\ [][NextThreads]_vars

-----------------------------------------------------------------------------
(* Properties of RAGService.query *)

Count(evs, type) == Cardinality({i \in 1..Len(evs) : evs[i].type = type})

\* The generator has returned normally (no gateway call failed).
Completed == pc = "done"

\* The retrieval result is in and the sources step is behind.
PastSources == pc \in {"yield_sources", "await_generate", "yield_token", "done"}

\* The context block has been assembled and sent to the chat model.
Assembled == \E i \in 1..Len(calls) : calls[i].gateway = "chat"

\* C1: in a run of query() in which no gateway call fails, whatever stream and
\* include_sources are, the events are at most one sources event (first), then
\* token events, then exactly one done event; done is the last event, nothing
\* follows it, and it is emitted also when no non-empty fragment was produced.
C1_EventOrder ==
    /\ \A i \in 1..Len(events) :
          /\ events[i].type \in {"sources", "token", "done"}
          /\ events[i].type = "sources" => i = 1
          /\ events[i].type = "done" => i = Len(events)
    /\ Completed => /\ Len(events) >= 1
                    /\ Last(events) = DoneEvent
                    /\ Count(events, "done") = 1
    /\ ~Completed => Count(events, "done") = 0

\* C1 witness: a streamed answer whose fragments were all empty, without
\* sources, ended with done as its only event.
C1_Witness ==
    /\ Completed
    /\ req.stream
    /\ ~req.include_sources
    /\ Len(produced) = MaxFragments
    /\ \A i \in 1..Len(produced) : produced[i] = ""
    /\ events = <<DoneEvent>>

\* C2: if a gateway call fails after at least one event has been emitted, the
\* stream still ends with a terminal error event distinct from done.
C2_TerminalErrorEvent ==
    (pc = "failed" /\ Len(events) > 0) =>
        /\ Last(events).type = "error"
        /\ Last(events).type # "done"

\* C3: a sources event is emitted if and only if include_sources is true (none
\* at all, not even an empty one, when it is false), and in both cases the
\* completed stream ends with exactly one done event.
C3_SourcesIffRequested ==
    /\ ~req.include_sources => Count(events, "sources") = 0
    /\ PastSources => (Count(events, "sources") = 1 <=> req.include_sources)
    /\ PastSources => Count(events, "sources") <= 1
    /\ Completed => Last(events).type = "done" /\ Count(events, "done") = 1

\* C3 witness: a query without sources that retrieved documents and completed.
C3_Witness ==
    /\ Completed
    /\ ~req.include_sources
    /\ Len(docs) > 0
    /\ Count(events, "sources") = 0

\* C4: with a non-empty chat_history the chat model is asked to rewrite the
\* question before retrieval, and the retriever receives its output verbatim.
C4_RewriteBeforeRetrieval ==
    \A i \in 1..Len(calls) :
        (calls[i].gateway = "retriever" /\ Len(req.chat_history) > 0) =>
            /\ \E j \in 1..(i - 1) : calls[j].gateway = "chat"
            /\ calls[i].input = Rewritten(req.question)

\* C5: with an empty or absent chat_history the retriever receives the caller's
\* question unchanged and no chat-model call precedes the retrieval.
C5_IdentityWithoutHistory ==
    \A i \in 1..Len(calls) :
        (calls[i].gateway = "retriever" /\ Len(req.chat_history) = 0) =>
            /\ calls[i].input = req.question
            /\ \A j \in 1..(i - 1) : calls[j].gateway # "chat"

\* C5 witness: a completed query without history, retrieval then generation.
C5_Witness ==
    /\ Completed
    /\ Len(req.chat_history) = 0
    /\ Len(calls) = 2
    /\ calls[1].gateway = "retriever"
    /\ calls[2].gateway = "chat"

\* The citation the caller resolves: entry i of the sources event, cited as [i].
Citation(i, entry) ==
    "[" \o ToString(i) \o "]"
    \o (IF entry.metadata.source \in {None, Some("")} THEN ""
        ELSE " (source: " \o Get(entry.metadata.source) \o ")")
    \o " " \o entry.content

\* C6: with include_sources, the sources event and the assembled context list
\* the same documents in the same order: both have as many entries as were
\* retrieved, and the block rendered as [i] is the i-th entry of the event.
C6_CitationsMatchSources ==
    (req.include_sources /\ Assembled) =>
        LET data == events[1].data
        IN  /\ events[1].type = "sources"
            /\ Len(data) = Len(docs)
            /\ Len(Formatted(docs)) = Len(data)
            /\ context = Join([i \in 1..Len(data) |-> Citation(i, data[i])], "\n\n")
            /\ \A c \in 1..Len(calls) :
                  calls[c].gateway = "chat" => calls[c].context = context

\* C6 witness: two different documents were retrieved, surfaced and cited.
C6_Witness ==
    /\ Completed
    /\ req.include_sources
    /\ Len(docs) = 2
    /\ docs[1] # docs[2]
    /\ Assembled

-----------------------------------------------------------------------------
(* Properties of the ChunkingService *)

\* A split call has returned its chunks.
SplitReturned ==
    /\ cpc = "returned"
    /\ op.name \in {"split_text", "split_documents"}
    /\ ret.status = "ok"

\* C7: for every strategy and both split operations, the chunks returned carry
\* chunk_index 0..n-1 in order, without gap or duplicate, and all carry
\* total_chunks = n, the number of chunks returned.
C7_ChunkIndexContiguous ==
    SplitReturned =>
        \A i \in 1..Len(ret.chunks) :
            /\ ret.chunks[i].metadata.chunk_index = Some(i - 1)
            /\ ret.chunks[i].metadata.total_chunks = Some(Len(ret.chunks))

\* The chunk size in force: the caller's, or the configured one when none is passed.
EffectiveChunkSize == IF op.chunk_size = None THEN settings.CHUNK_SIZE ELSE Get(op.chunk_size)

\* C8: for markdown and html the second pass is always applied: no chunk of the
\* header split that is longer than the effective chunk_size (the caller's, or
\* the configured default) is returned as it is.
C8_SecondPassAlways ==
    (SplitReturned /\ op.name = "split_text" /\ op.strategy \in StructuralStrategies) =>
        LET structural == HeaderSplit(op.text, 0, 1)
        IN  \A s \in 1..Len(structural), i \in 1..Len(ret.chunks) :
                structural[s].page_content.len > EffectiveChunkSize =>
                    ret.chunks[i].page_content # structural[s].page_content

\* The class each strategy stands for.
ClassOf(strategy) ==
    CASE strategy = "recursive" -> "RecursiveCharacterTextSplitter"
      [] strategy = "character" -> "CharacterTextSplitter"
      [] strategy = "token" -> "TokenTextSplitter"
      [] strategy = "markdown" -> "MarkdownHeaderTextSplitter"
      [] strategy = "html" -> "HTMLHeaderTextSplitter"
      [] strategy = "semantic" -> "SentenceTransformersTokenTextSplitter"
      [] OTHER -> "none"

\* A call that takes a strategy has returned or raised.
StrategyCallReturned ==
    /\ cpc = "returned"
    /\ op.name \in {"get_splitter", "split_text", "split_documents"}

\* C9: a get_splitter or split call with a strategy outside the six known ones
\* raises an error on every call, first or repeated, returns no splitter (of
\* any strategy) and no chunks, and leaves the splitter cache as it was.
C9_UnknownStrategyFails ==
    /\ [](StrategyCallReturned /\ op.strategy \notin ValidStrategies =>
            /\ ret.status = "ValueError"
            /\ ret.splitter = None
            /\ ret.chunks = <<>>)
    /\ [](StrategyCallReturned /\ ret.status = "ok" /\ op.name = "get_splitter" =>
            Get(ret.splitter).cls = ClassOf(op.strategy))
    /\ [][(cpc = "idle" /\ cpc' = "returned" /\ op'.strategy \notin ValidStrategies)
            => splitters' = splitters]_vars

\* C9 witness: a call with an unknown strategy raised after an earlier call
\* had filled the cache.
C9_Witness ==
    /\ StrategyCallReturned
    /\ op.strategy \in UnknownStrategies
    /\ ret.status = "ValueError"
    /\ ncalls = 2
    /\ DOMAIN splitters # {}

\* ceil(a / b) for b > 0
CeilDiv(a, b) == (a + b - 1) \div b

\* The size and overlap the caller passed (the configured ones when it passed none).
PassedSize == IF op.chunk_size = None THEN settings.CHUNK_SIZE ELSE Get(op.chunk_size)

PassedOverlap ==
    IF op.chunk_overlap = None THEN settings.CHUNK_OVERLAP ELSE Get(op.chunk_overlap)

\* C10: for every text length and every config with 0 <= chunk_overlap <
\* chunk_size, estimate_chunks returns max(1, ceil((len - overlap) / (size -
\* overlap))), computed with the size and overlap the caller passed, an
\* explicit overlap of 0 included.
C10_EstimateIsCeiling ==
    (cpc = "returned" /\ op.name = "estimate_chunks"
        /\ 0 <= PassedOverlap /\ PassedOverlap < PassedSize) =>
        Get(ret.estimate).estimated_chunks =
            Max(1, CeilDiv(TextLen(op.text) - PassedOverlap, PassedSize - PassedOverlap))

\* C11: for every text length and every config with a positive chunk_size and
\* chunk_overlap >= chunk_size, estimate_chunks returns estimated_chunks = 1.
C11_DegenerateEstimateIsOne ==
    (cpc = "returned" /\ op.name = "estimate_chunks"
        /\ PassedSize >= 1 /\ PassedOverlap >= PassedSize) =>
        Get(ret.estimate).estimated_chunks = 1

\* A long text estimated with an explicit overlap equal to the explicit size.
C11_Witness ==
    /\ cpc = "returned"
    /\ op.name = "estimate_chunks"
    /\ TextLen(op.text) = MaxEstimateLen
    /\ op.chunk_size = Some(MaxOverlap + 1)
    /\ op.chunk_overlap = Some(MaxOverlap + 1)
    /\ Get(ret.estimate).estimated_chunks = 1

\* C12: for every content type (known or unknown) and every avg_doc_length
\* below 500, get_optimal_strategy returns chunk_size = avg_doc_length and
\* chunk_overlap = chunk_size / 5 (integer division of the shrunk chunk_size);
\* for avg_doc_length >= 500 it returns the table entry of the content type
\* unchanged, unknown content types getting recursive / 1000 / 200.
C12_ShrinkRule ==
    (cpc = "returned" /\ op.name = "get_optimal_strategy") =>
        LET rec == Get(ret.recommendation)
        IN  IF op.avg_doc_length < 500
            THEN /\ rec.chunk_size = op.avg_doc_length
                 /\ rec.chunk_overlap = rec.chunk_size \div 5
            ELSE IF op.content_type \in DOMAIN recommendations
                 THEN rec = recommendations[op.content_type]
                 ELSE rec = [strategy |-> "recursive", chunk_size |-> 1000,
                             chunk_overlap |-> 200]

-----------------------------------------------------------------------------
(* Claims about indexing and search *)

\* An operation that reached the vector store has returned; its call on the
\* handle is the last of scalls.
StoreOpReturned(names) == sop.name \in names /\ scalls # <<>>

\* C13: for every MMR search where the caller gives k but no fetch_k, the
\* candidate pool size passed to the vector store is max(k, 20), so
\* fetch_k >= k holds for every k (including k > 20).
C13_FetchKAtLeastK ==
    (StoreOpReturned({"mmr_search"}) /\ sop.fetch_k = None) =>
        /\ Last(scalls).fetch_k = Some(Max(sop.k, 20))
        /\ Get(Last(scalls).fetch_k) >= sop.k

\* The metadata record i of an indexing request has to carry.
ExpectedMetadata(i) ==
    IF sop.metadatas # None /\ i <= Len(Get(sop.metadatas))
    THEN Get(sop.metadatas)[i]
    ELSE EmptyMetadata

\* All records of the database, collection after collection.
AllRecords == collections[QDRANT_COLLECTION] \o collections["archive"]

\* C14: an indexing request with n texts and an optional metadatas list, made
\* through RAGService.index_texts or through the /rag/index endpoint (and
\* whose write the vector store accepts), writes exactly n records, one per
\* text in input order, record i carrying metadatas[i] when metadatas is given
\* and has an i-th element and empty metadata otherwise, each record with a
\* fresh id, and the returned count equals n.
C14_IndexWritesOnePerText ==
    (sop.name \in {"index_texts", "POST /rag/index"} /\ sret.status # "GatewayError") =>
        /\ sret.status = "ok"
        /\ sret.count = Len(sop.texts)
        /\ scalls # <<>>
        /\ LET written == collections[Last(scalls).collection_name]
               n == Len(sop.texts)
               before == Len(written) - n
           IN  /\ before >= 0
               /\ \A i \in 1..n :
                      /\ written[before + i].page_content = sop.texts[i]
                      /\ written[before + i].metadata = ExpectedMetadata(i)
                      /\ written[before + i].id = sret.ids[i]
        /\ \A i, j \in 1..Len(AllRecords) :
               AllRecords[i].id = AllRecords[j].id => i = j

\* C15: after any sequence of index, search and query operations on one
\* QdrantService, an index or search call that names a target collection c
\* operates on collection c, and a call that names none operates on the
\* configured default collection.
C15_HandleFollowsCollection ==
    StoreOpReturned({"index_texts", "search", "similarity_search", "mmr_search"}) =>
        Last(scalls).collection_name =
            (IF sop.collection = None THEN QDRANT_COLLECTION ELSE Get(sop.collection))

-----------------------------------------------------------------------------
(* Claims about the chat endpoints and the consumers of a query *)

\* C16: when a streaming chat request carries metadata filters, the query is
\* run (it is not refused before its first gateway call) and retrieval is
\* restricted to records whose metadata equals the given value for every
\* filter key: every retrieved document, hence every entry of the sources
\* event and of the context, satisfies the filter.
C16_FiltersRestrictRetrieval ==
    (endpoint.name = "chat" /\ endpoint.filters # None) =>
        /\ response.status # "TypeError"
        /\ pc = "failed" => calls # <<>>
        /\ \A i \in 1..Len(docs) :
               docs[i].metadata.source = Some(Get(endpoint.filters).source)

\* C17: for every request to the non-streaming chat endpoint whose pipeline
\* completes (requests with include_sources and at least one retrieved
\* document included), the handler returns a response whose `response` is the
\* concatenation in order of the data of all token events, whose `sources` are
\* the entries of the sources event, and whose conversation_id is the request's.
C17_SyncResponseEqualsStream ==
    (endpoint.name = "chat_sync" /\ pc = "done" /\ response # NoResponse) =>
        /\ response.status = "ok"
        /\ response.response = Join(produced, "")
        /\ response.sources = (IF req.include_sources THEN SourcesOf(docs) ELSE <<>>)
        /\ response.conversation_id = endpoint.conversation_id

\* C18: if the caller stops consuming the event stream at any point of a
\* query, then from that point on the pipeline issues no further gateway call
\* (retrieval, generation start, or further token pulls) and emits no further
\* event for that query.
C18_NoCallAfterDisconnect ==
    [][~connected =>
          /\ calls' = calls
          /\ executor'.sent = executor.sent
          /\ produced' = produced
          /\ events' = events]_vars

\* Retrieval has returned, and it returned no document.
EmptyRetrieval ==
    pc \in {"yield_sources", "await_generate", "yield_token", "done"} /\ docs = <<>>

\* C20: when retrieval returns zero documents the query does not fail: the
\* assembled context is the empty string, no chunk is fabricated (the sources
\* event, if any, is empty), the generation gateway is called exactly once,
\* with the empty context, and the stream ends with done.
C20_EmptyRetrievalProceeds ==
    EmptyRetrieval =>
        /\ context = ""
        /\ \A i \in 1..Len(events) : events[i].type = "sources" => events[i].data = <<>>
        /\ pc \in {"await_generate", "yield_token", "done"} =>
               /\ Cardinality({i \in 1..Len(calls) : calls[i].gateway = "chat"}) = 1
               /\ \A i \in 1..Len(calls) :
                      calls[i].gateway = "chat" => calls[i].context = ""
        /\ pc = "done" => Last(events) = DoneEvent

\* A query with sources asked for that retrieved nothing and ran to its end.
C20_Witness ==
    /\ pc = "done"
    /\ docs = <<>>
    /\ req.include_sources
    /\ events[1] = SourcesEvent(<<>>)
    /\ Len(events) > 2
    /\ Last(events) = DoneEvent

-----------------------------------------------------------------------------
(* Claims about the lazily built singletons *)

\* C19: under any interleaving of concurrent first callers, the lazily built
\* RAGService singleton is constructed at most once, and all callers observe
\* the same instance.
C19_SingletonBuiltOnce ==
    /\ constructed <= 1
    /\ \A t, u \in 1..MaxThreads :
           (threads[t].pc = "done" /\ threads[u].pc = "done") =>
               threads[t].got = threads[u].got

-----------------------------------------------------------------------------
(* Claims about token emission and the splitter cache *)

\* The data of the token events, in the order of their emission.
RECURSIVE TokenData(_)
TokenData(evs) ==
    IF evs = <<>> THEN <<>>
    ELSE IF Head(evs).type = "token" THEN <<Head(evs).data>> \o TokenData(Tail(evs))
    ELSE TokenData(Tail(evs))

\* The fragments of a sequence that are not empty, in order.
NonEmpty(fragments) == SelectSeq(fragments, LAMBDA f : f # "")

\* The generation calls made so far.
ChatCalls == {i \in 1..Len(calls) : calls[i].gateway = "chat"}

\* C21: in streaming mode query() emits one token event per non-empty fragment
\* the chat model produced, in the order of production, none dropped,
\* duplicated or reordered; in batch mode it makes a single generation call
\* and emits exactly one token event, which holds the full answer.
C21_TokensFollowProduction ==
    /\ req.stream => TokenData(events) = NonEmpty(produced)
    /\ ~req.stream =>
           /\ Cardinality(ChatCalls) <= 1
           /\ \A i \in ChatCalls : calls[i].method = "ainvoke"
           /\ TokenData(events) = produced
           /\ Len(produced) <= 1
           /\ pc \in {"yield_token", "done"} =>
                  Cardinality(ChatCalls) = 1 /\ Len(TokenData(events)) = 1

\* A streamed answer of several non-empty fragments that ran to its end.
C21_Witness ==
    /\ Completed
    /\ req.stream
    /\ produced = <<"Pa", "ris">>
    /\ TokenData(events) = <<"Pa", "ris">>

\* The splitter _create_splitter() builds from the options of the call made last.
SplitterOfCall ==
    create_splitter(op.strategy, OrElse(op.chunk_size, settings.CHUNK_SIZE),
                    OrElse(op.chunk_overlap, settings.CHUNK_OVERLAP), op.kwargs)

\* C22: after any sequence of get_splitter / split_text calls, the splitter
\* returned for a call is configured with that call's own options (separators,
\* separator, headers_to_split_on, encoding_name, tokens_per_chunk), not with
\* those of an earlier call that had the same (strategy, chunk_size,
\* chunk_overlap); and cache entries, once created, are never replaced or
\* removed.
C22_SplitterHasCallOptions ==
    /\ []((cpc = "returned" /\ op.name = "get_splitter" /\ ret.status = "ok") =>
            ret.splitter = SplitterOfCall.splitter)
    /\ [][\A key \in DOMAIN splitters :
              key \in DOMAIN splitters' /\ splitters'[key] = splitters[key]]_vars

====
